---- MODULE Spec2Model ----
(***************************************************************************)
(* University records model of src/annotation.ts: Person / Teacher /      *)
(* Student, Course, Group and University, with the process-wide           *)
(* Person.nextId counter.                                                  *)
(*                                                                         *)
(* Objects live in heaps (sequences in construction order); a reference   *)
(* to an object is its index in its heap, so that the === comparisons of  *)
(* the source are comparisons of indices and never of field values.       *)
(***************************************************************************)
EXTENDS Integers, Sequences, FiniteSets

VARIABLES nextId, persons, courseObjs, groupObjs, university, ret

vars == <<nextId, persons, courseObjs, groupObjs, university, ret>>

(***************************************************************************)
(* Enums and inputs                                                        *)
(***************************************************************************)
Roles == [student |-> "student", teacher |-> "teacher"]

AcademicStatus ==
  [active |-> "active", academicLeave |-> "academicLeave",
   graduated |-> "graduated", expelled |-> "expelled"]

StatusValues ==
  {AcademicStatus.active, AcademicStatus.academicLeave,
   AcademicStatus.graduated, AcademicStatus.expelled}

\* role strings handed to new Person(info, role) and to getAllPeopleByRole
RoleInputs == {Roles.student, Roles.teacher, "admin"}

\* values written to student.academicPerformance.gpa by client code
GpaInputs == {3, 4}

(***************************************************************************)
(* Bounds                                                                  *)
(***************************************************************************)
\* SpecIds: constructions, Student constructions among them, and enrollments
\* per student
IdsMaxPeople == 3
IdsMaxStudents == 1
IdsMaxEnrolled == 1
\* SpecStudent: Student constructions and enrollments per student
StudentMaxStudents == 1
StudentMaxEnrolled == 3
\* SpecGroup: Group constructions
GroupMaxGroups == 1
\* SpecUniversity: length of the university's groups and people lists
UniversityMaxListed == 3

(***************************************************************************)
(* Errors and call results                                                 *)
(***************************************************************************)
NoError == [name |-> "none", message |-> ""]

UniversityError(message) == [name |-> "UniversityError", message |-> message]

Error(message) == [name |-> "Error", message |-> message]

\* Array.prototype.find's result: the element, or undefined
Undefined == <<>>
Found(x) == <<x>>

(***************************************************************************)
(* Array helpers, as the JavaScript built-ins compute them                 *)
(***************************************************************************)
Push(arr, x) == Append(arr, x)

\* variant: only the first element is compared
Includes_FirstOnly(arr, x) == arr # <<>> /\ arr[1] = x

Includes(arr, x) == \E i \in 1..Len(arr) : arr[i] = x

\* A callback (element) => boolean is given as the set of the elements it
\* accepts.
\* zero-based index of the first accepted element, -1 when none is accepted
FindIndex(arr, accepted) ==
  IF \E i \in 1..Len(arr) : arr[i] \in accepted
  THEN (CHOOSE i \in 1..Len(arr) :
          arr[i] \in accepted /\ \A j \in 1..(i - 1) : arr[j] \notin accepted) - 1
  ELSE -1

Find(arr, accepted) ==
  IF FindIndex(arr, accepted) = -1 THEN Undefined
  ELSE Found(arr[FindIndex(arr, accepted) + 1])

Filter(arr, accepted) ==
  LET Accepts(x) == x \in accepted
  IN SelectSeq(arr, Accepts)

\* the ~ operator on a 32-bit integer
BitNot(x) == -x - 1

\* variant: arr.splice(start), which deletes up to the end of the array
Splice1_ToEnd(arr, start) == SubSeq(arr, 1, start)

\* arr.splice(start, 1): a negative start counts from the end of the array
Splice1(arr, start) ==
  LET len == Len(arr)
      from == IF start < 0
              THEN (IF len + start < 0 THEN 0 ELSE len + start)
              ELSE (IF start > len THEN len ELSE start)
  IN [i \in 1..(IF from < len THEN len - 1 ELSE len) |->
        IF i <= from THEN arr[i] ELSE arr[i + 1]]

(***************************************************************************)
(* Numbers returned by getAverageGroupScore.  A number is a fraction       *)
(* num/den in lowest terms; x/0 is kept as the IEEE value it denotes:      *)
(* 0/0 is NaN, 1/0 is Infinity.                                            *)
(***************************************************************************)
RECURSIVE Gcd(_, _)
Gcd(a, b) == IF b = 0 THEN a ELSE Gcd(b, a % b)

Num(n) == [num |-> n, den |-> 1]

NaN == [num |-> 0, den |-> 0]

JsDiv(a, b) ==
  IF b = 0 THEN [num |-> (IF a = 0 THEN 0 ELSE 1), den |-> 0]
  ELSE [num |-> a \div Gcd(a, b), den |-> b \div Gcd(a, b)]

(***************************************************************************)
(* Person, Teacher, Student                                                *)
(***************************************************************************)
\* variant: the counter is read but not advanced
PostIncrement_Stuck(n) == n

\* Person.nextId++ : the value the counter has after the post-increment
PostIncrement(n) == n + 1

NewPerson(role) ==
  /\ persons' = Push(persons, [kind |-> "Person", id |-> nextId, role |-> role])
  /\ nextId' = PostIncrement(nextId)
  /\ ret' = [op |-> "new Person", threw |-> NoError]
  /\ UNCHANGED <<courseObjs, groupObjs, university>>

NewTeacher ==
  /\ persons' = Push(persons, [kind |-> "Teacher", id |-> nextId, role |-> Roles.teacher])
  /\ nextId' = PostIncrement(nextId)
  /\ ret' = [op |-> "new Teacher", threw |-> NoError]
  /\ UNCHANGED <<courseObjs, groupObjs, university>>

NewStudent ==
  /\ persons' = Push(persons,
                  [kind |-> "Student", id |-> nextId, role |-> Roles.student,
                   academicPerformance |-> [totalCredits |-> 0, gpa |-> 0],
                   enrolledCourses |-> <<>>,
                   status |-> AcademicStatus.active])
  /\ nextId' = PostIncrement(nextId)
  /\ ret' = [op |-> "new Student", threw |-> NoError]
  /\ UNCHANGED <<courseObjs, groupObjs, university>>

StudentRefs == {p \in 1..Len(persons) : persons[p].kind = "Student"}

TeacherRefs == {p \in 1..Len(persons) : persons[p].kind = "Teacher"}

\* variant: only the terminal statuses are refused
enrollCourse_TerminalOnly(self, course) ==
  /\ self \in StudentRefs
  /\ course \in 1..Len(courseObjs)
  /\ IF persons[self].status \in {AcademicStatus.graduated, AcademicStatus.expelled}
     THEN /\ ret' = [op |-> "enrollCourse", self |-> self, course |-> course,
                     threw |-> UniversityError("Cannot enroll: Student is not in active status")]
          /\ UNCHANGED persons
     ELSE /\ persons' =
               [persons EXCEPT
                  ![self].enrolledCourses = Push(@, course),
                  ![self].academicPerformance.totalCredits =
                     @ + courseObjs[course].credits]
          /\ ret' = [op |-> "enrollCourse", self |-> self, course |-> course,
                     threw |-> NoError]
  /\ UNCHANGED <<nextId, courseObjs, groupObjs, university>>

\* variant: a course already enrolled is appended again without its credits
enrollCourse_CreditsOnce(self, course) ==
  /\ self \in StudentRefs
  /\ course \in 1..Len(courseObjs)
  /\ IF persons[self].status # AcademicStatus.active
     THEN /\ ret' = [op |-> "enrollCourse", self |-> self, course |-> course,
                     threw |-> UniversityError("Cannot enroll: Student is not in active status")]
          /\ UNCHANGED persons
     ELSE /\ persons' =
               [persons EXCEPT
                  ![self].enrolledCourses = Push(@, course),
                  ![self].academicPerformance.totalCredits =
                     IF Includes(persons[self].enrolledCourses, course)
                     THEN @ ELSE @ + courseObjs[course].credits]
          /\ ret' = [op |-> "enrollCourse", self |-> self, course |-> course,
                     threw |-> NoError]
  /\ UNCHANGED <<nextId, courseObjs, groupObjs, university>>

enrollCourse(self, course) ==
  /\ self \in StudentRefs
  /\ course \in 1..Len(courseObjs)
  /\ IF persons[self].status # AcademicStatus.active
     THEN /\ ret' = [op |-> "enrollCourse", self |-> self, course |-> course,
                     threw |-> UniversityError("Cannot enroll: Student is not in active status")]
          /\ UNCHANGED persons
     ELSE /\ persons' =
               [persons EXCEPT
                  ![self].enrolledCourses = Push(@, course),
                  ![self].academicPerformance.totalCredits =
                     @ + courseObjs[course].credits]
          /\ ret' = [op |-> "enrollCourse", self |-> self, course |-> course,
                     threw |-> NoError]
  /\ UNCHANGED <<nextId, courseObjs, groupObjs, university>>

getAverageScore(self) == persons[self].academicPerformance.gpa

\* students.reduce((sum, student) => sum + student.getAverageScore(), sum)
RECURSIVE ReduceScores(_, _)
ReduceScores(students, sum) ==
  IF students = <<>> THEN sum
  ELSE ReduceScores(Tail(students), sum + getAverageScore(Head(students)))

\* variant: graduated and expelled are final
updateAcademicStatus_Final(self, newStatus) ==
  /\ self \in StudentRefs
  /\ IF persons[self].status \in {AcademicStatus.graduated, AcademicStatus.expelled}
     THEN /\ UNCHANGED persons
          /\ ret' = [op |-> "updateAcademicStatus", self |-> self,
                     newStatus |-> newStatus,
                     threw |-> UniversityError("Status is final")]
     ELSE /\ persons' = [persons EXCEPT ![self].status = newStatus]
          /\ ret' = [op |-> "updateAcademicStatus", self |-> self,
                     newStatus |-> newStatus, threw |-> NoError]
  /\ UNCHANGED <<nextId, courseObjs, groupObjs, university>>

updateAcademicStatus(self, newStatus) ==
  /\ self \in StudentRefs
  /\ persons' = [persons EXCEPT ![self].status = newStatus]
  /\ ret' = [op |-> "updateAcademicStatus", self |-> self, newStatus |-> newStatus,
             threw |-> NoError]
  /\ UNCHANGED <<nextId, courseObjs, groupObjs, university>>

\* client code assigning the public field student.academicPerformance.gpa
SetGpa(self, gpa) ==
  /\ self \in StudentRefs
  /\ persons' = [persons EXCEPT ![self].academicPerformance.gpa = gpa]
  /\ ret' = [op |-> "set gpa", self |-> self, threw |-> NoError]
  /\ UNCHANGED <<nextId, courseObjs, groupObjs, university>>

(***************************************************************************)
(* Group                                                                   *)
(***************************************************************************)
NewGroup(course, teacher) ==
  /\ course \in 1..Len(courseObjs)
  /\ teacher \in TeacherRefs
  /\ groupObjs' = Push(groupObjs,
                    [course |-> course, teacher |-> teacher, students |-> <<>>])
  /\ ret' = [op |-> "new Group", threw |-> NoError]
  /\ UNCHANGED <<nextId, persons, courseObjs, university>>

\* variant: the roster is not consulted
addStudent_Unchecked(self, student) ==
  /\ self \in 1..Len(groupObjs)
  /\ student \in StudentRefs
  /\ groupObjs' = [groupObjs EXCEPT ![self].students = Push(@, student)]
  /\ ret' = [op |-> "addStudent", self |-> self, student |-> student,
             threw |-> NoError]
  /\ UNCHANGED <<nextId, persons, courseObjs, university>>

addStudent(self, student) ==
  /\ self \in 1..Len(groupObjs)
  /\ student \in StudentRefs
  /\ IF Includes(groupObjs[self].students, student)
     THEN /\ ret' = [op |-> "addStudent", self |-> self, student |-> student,
                     threw |-> UniversityError("Student is already in the group")]
          /\ UNCHANGED groupObjs
     ELSE /\ groupObjs' = [groupObjs EXCEPT ![self].students = Push(@, student)]
          /\ ret' = [op |-> "addStudent", self |-> self, student |-> student,
                     threw |-> NoError]
  /\ UNCHANGED <<nextId, persons, courseObjs, university>>

removeStudentById(self, id) ==
  /\ self \in 1..Len(groupObjs)
  /\ LET hasId == {student \in StudentRefs : persons[student].id = id}
         index == FindIndex(groupObjs[self].students, hasId)
     IN IF BitNot(index) = 0
        THEN /\ ret' = [op |-> "removeStudentById", self |-> self, id |-> id,
                        threw |-> UniversityError("Student not found in group")]
             /\ UNCHANGED groupObjs
        ELSE /\ groupObjs' =
                  [groupObjs EXCEPT ![self].students = Splice1(@, index)]
             /\ ret' = [op |-> "removeStudentById", self |-> self, id |-> id,
                        threw |-> NoError]
  /\ UNCHANGED <<nextId, persons, courseObjs, university>>

\* variant: the guard returns early for the empty roster
AverageGroupScore_EmptyGuard(students) ==
  IF Len(students) = 0
  THEN Num(0)
  ELSE LET totalScore == ReduceScores(students, 0)
       IN JsDiv(totalScore, Len(students))

\* the number getAverageGroupScore returns for a roster
AverageGroupScore(students) ==
  IF Len(students) # 0
  THEN Num(0)
  ELSE LET totalScore == ReduceScores(students, 0)
       IN JsDiv(totalScore, Len(students))

getAverageGroupScore(self) ==
  /\ self \in 1..Len(groupObjs)
  /\ ret' = [op |-> "getAverageGroupScore", self |-> self,
             value |-> AverageGroupScore(groupObjs[self].students),
             threw |-> NoError]
  /\ UNCHANGED <<nextId, persons, courseObjs, groupObjs, university>>

(***************************************************************************)
(* University                                                              *)
(***************************************************************************)
addGroup(group) ==
  /\ group \in 1..Len(groupObjs)
  /\ university' = [university EXCEPT !.groups = Push(@, group)]
  /\ ret' = [op |-> "addGroup", group |-> group, threw |-> NoError]
  /\ UNCHANGED <<nextId, persons, courseObjs, groupObjs>>

addPerson(person) ==
  /\ person \in 1..Len(persons)
  /\ university' = [university EXCEPT !.people = Push(@, person)]
  /\ ret' = [op |-> "addPerson", person |-> person, threw |-> NoError]
  /\ UNCHANGED <<nextId, persons, courseObjs, groupObjs>>

\* variant: courses are compared by name
GroupByCourse_ByName(groups, course) ==
  LET ofCourse == {group \in 1..Len(groupObjs) :
                      courseObjs[groupObjs[group].course].name = courseObjs[course].name}
  IN Find(groups, ofCourse)

\* the group (or undefined) findGroupByCourse returns
GroupByCourse(groups, course) ==
  LET ofCourse == {group \in 1..Len(groupObjs) : groupObjs[group].course = course}
  IN Find(groups, ofCourse)

findGroupByCourse(course) ==
  /\ course \in 1..Len(courseObjs)
  /\ ret' = [op |-> "findGroupByCourse", course |-> course,
             value |-> GroupByCourse(university.groups, course),
             threw |-> NoError]
  /\ UNCHANGED <<nextId, persons, courseObjs, groupObjs, university>>

assertNeverRole(role) ==
  [threw |-> Error("Unhandled role: " \o role), value |-> <<>>]

\* variant: an unrecognised role yields an empty array
PeopleByRole_EmptyDefault(people, role) ==
  LET isStudent == {person \in 1..Len(persons) : persons[person].role = Roles.student}
      isTeacher == {person \in 1..Len(persons) : persons[person].role = Roles.teacher}
  IN CASE role = Roles.student ->
            [threw |-> NoError, value |-> Filter(people, isStudent)]
       [] role = Roles.teacher ->
            [threw |-> NoError, value |-> Filter(people, isTeacher)]
       [] OTHER -> [threw |-> NoError, value |-> <<>>]

\* the outcome of getAllPeopleByRole: the array returned, or the error thrown
PeopleByRole(people, role) ==
  LET isStudent == {person \in 1..Len(persons) : persons[person].role = Roles.student}
      isTeacher == {person \in 1..Len(persons) : persons[person].role = Roles.teacher}
  IN CASE role = Roles.student ->
            [threw |-> NoError, value |-> Filter(people, isStudent)]
       [] role = Roles.teacher ->
            [threw |-> NoError, value |-> Filter(people, isTeacher)]
       [] OTHER -> assertNeverRole(role)

getAllPeopleByRole(role) ==
  /\ ret' = [op |-> "getAllPeopleByRole", role |-> role,
             value |-> PeopleByRole(university.people, role).value,
             threw |-> PeopleByRole(university.people, role).threw]
  /\ UNCHANGED <<nextId, persons, courseObjs, groupObjs, university>>

(***************************************************************************)
(* Fixtures: objects constructed before a scenario starts                  *)
(***************************************************************************)
\* new Course("Math", 5, ...) and new Course("Art", 3, ...)
Math == [name |-> "Math", credits |-> 5]

Art == [name |-> "Art", credits |-> 3]

TeacherObj(id) == [kind |-> "Teacher", id |-> id, role |-> Roles.teacher]

StudentObj(id) ==
  [kind |-> "Student", id |-> id, role |-> Roles.student,
   academicPerformance |-> [totalCredits |-> 0, gpa |-> 0],
   enrolledCourses |-> <<>>,
   status |-> AcademicStatus.active]

PersonObj(id, role) == [kind |-> "Person", id |-> id, role |-> role]

GroupObj(course, teacher) ==
  [course |-> course, teacher |-> teacher, students |-> <<>>]

EmptyUniversity == [groups |-> <<>>, people |-> <<>>]

(***************************************************************************)
(* Identifiers: every constructor and every operation on students and     *)
(* on one group, from the start of the process (one Course exists).       *)
(***************************************************************************)
InitIds ==
  /\ nextId = 1
  /\ persons = <<>>
  /\ courseObjs = <<Math>>
  /\ groupObjs = <<>>
  /\ university = EmptyUniversity
  /\ ret = [op |-> "init", threw |-> NoError]

NextIds ==
  \/ \E role \in RoleInputs :
       /\ Len(persons) < IdsMaxPeople
       /\ NewPerson(role)
  \/ /\ Len(persons) < IdsMaxPeople
     /\ NewTeacher
  \/ /\ Len(persons) < IdsMaxPeople
     /\ Cardinality(StudentRefs) < IdsMaxStudents
     /\ NewStudent
  \/ \E c \in 1..Len(courseObjs), t \in TeacherRefs :
       /\ groupObjs = <<>>
       /\ NewGroup(c, t)
  \/ \E s \in StudentRefs, c \in 1..Len(courseObjs) :
       /\ Len(persons[s].enrolledCourses) < IdsMaxEnrolled
       /\ enrollCourse(s, c)
  \/ \E s \in StudentRefs, st \in StatusValues : updateAcademicStatus(s, st)
  \/ \E g \in 1..Len(groupObjs), s \in StudentRefs : addStudent(g, s)
  \/ \E g \in 1..Len(groupObjs), id \in 1..nextId : removeStudentById(g, id)

SpecIds == InitIds /\ [][NextIds]_vars

(***************************************************************************)
(* Student records: two courses exist; students are constructed, enroll   *)
(* and change status.                                                     *)
(***************************************************************************)
InitStudent ==
  /\ nextId = 1
  /\ persons = <<>>
  /\ courseObjs = <<Math, Art>>
  /\ groupObjs = <<>>
  /\ university = EmptyUniversity
  /\ ret = [op |-> "init", threw |-> NoError]

NextStudent ==
  \/ /\ Cardinality(StudentRefs) < StudentMaxStudents
     /\ NewStudent
  \/ \E s \in StudentRefs, c \in 1..Len(courseObjs) :
       /\ \/ Len(persons[s].enrolledCourses) < StudentMaxEnrolled
          \/ persons[s].status # AcademicStatus.active
       /\ enrollCourse(s, c)
  \/ \E s \in StudentRefs, st \in StatusValues : updateAcademicStatus(s, st)

SpecStudent == InitStudent /\ [][NextStudent]_vars

(***************************************************************************)
(* Group rosters: a course, a teacher (id 1) and three students (ids 2,   *)
(* 3, 4) exist; groups are constructed and their rosters edited.          *)
(***************************************************************************)
InitGroup ==
  /\ nextId = 5
  /\ persons = <<TeacherObj(1), StudentObj(2), StudentObj(3), StudentObj(4)>>
  /\ courseObjs = <<Math>>
  /\ groupObjs = <<>>
  /\ university = EmptyUniversity
  /\ ret = [op |-> "init", threw |-> NoError]

NextGroup ==
  \/ \E c \in 1..Len(courseObjs), t \in TeacherRefs :
       /\ Len(groupObjs) < GroupMaxGroups
       /\ NewGroup(c, t)
  \/ \E s \in StudentRefs, gpa \in GpaInputs : SetGpa(s, gpa)
  \/ \E g \in 1..Len(groupObjs), s \in StudentRefs : addStudent(g, s)
  \/ \E g \in 1..Len(groupObjs), id \in 1..nextId : removeStudentById(g, id)
  \/ \E g \in 1..Len(groupObjs) : getAverageGroupScore(g)

SpecGroup == InitGroup /\ [][NextGroup]_vars

(***************************************************************************)
(* University registry: two courses of the same name, three groups (the   *)
(* first and the third on the first course) and four people exist; they   *)
(* are added to the university and looked up.                             *)
(***************************************************************************)
InitUniversity ==
  /\ nextId = 5
  /\ persons = <<TeacherObj(1), StudentObj(2), PersonObj(3, "admin"),
                 PersonObj(4, Roles.teacher)>>
  /\ courseObjs = <<Math, Math>>
  /\ groupObjs = <<GroupObj(1, 1), GroupObj(2, 1), GroupObj(1, 1)>>
  /\ university = EmptyUniversity
  /\ ret = [op |-> "init", threw |-> NoError]

NextUniversity ==
  \/ \E g \in 1..Len(groupObjs) :
       /\ Len(university.groups) < UniversityMaxListed
       /\ addGroup(g)
  \/ \E p \in 1..Len(persons) :
       /\ Len(university.people) < UniversityMaxListed
       /\ addPerson(p)
  \/ \E c \in 1..Len(courseObjs) : findGroupByCourse(c)
  \/ \E role \in RoleInputs : getAllPeopleByRole(role)

SpecUniversity == InitUniversity /\ [][NextUniversity]_vars

(***************************************************************************)
(* Properties                                                              *)
(***************************************************************************)
Range(seq) == {seq[i] : i \in 1..Len(seq)}

NoDuplicates(seq) == \A i, j \in 1..Len(seq) : i # j => seq[i] # seq[j]

RECURSIVE SumCredits(_)
SumCredits(courses) ==
  IF courses = <<>> THEN 0
  ELSE courseObjs[Head(courses)].credits + SumCredits(Tail(courses))

\* seq without its k-th element
Without(seq, k) == SubSeq(seq, 1, k - 1) \o SubSeq(seq, k + 1, Len(seq))

Rosters == {groupObjs[g].students : g \in 1..Len(groupObjs)}

\* C1: the ids of the people constructed so far, in construction order, start
\* at 1, are strictly increasing, and no two people share an id, whatever
\* operations ran between the constructions.
C1_IdsIncreasingUnique ==
  /\ persons # <<>> => persons[1].id = 1
  /\ \A i, j \in 1..Len(persons) : i < j => persons[i].id < persons[j].id
  /\ \A i, j \in 1..Len(persons) : i # j => persons[i].id # persons[j].id

\* a Person, a Teacher and a Student exist, the last call was a construction,
\* and before it a student enrolled, joined the group and left active status
C1_Witness ==
  /\ {persons[p].kind : p \in 1..Len(persons)} = {"Person", "Teacher", "Student"}
  /\ ret.op \in {"new Person", "new Teacher", "new Student"}
  /\ \E s \in StudentRefs :
       /\ persons[s].enrolledCourses # <<>>
       /\ persons[s].status # AcademicStatus.active
       /\ \E roster \in Rosters : s \in Range(roster)

\* C2: no student appears more than once in any group's roster.
C2_RosterNoDuplicates ==
  \A g \in 1..Len(groupObjs) : NoDuplicates(groupObjs[g].students)

\* an addStudent has just been refused on a roster of three
C2_Witness ==
  /\ ret.op = "addStudent"
  /\ ret.threw = UniversityError("Student is already in the group")
  /\ Len(groupObjs[ret.self].students) = 3

\* C3: addStudent(s) with s in the roster throws "Student is already in the
\* group" and leaves every roster as it was; with s not in the roster it
\* succeeds and appends s at the end of that roster.
C3_AddStudent ==
  [][ret'.op = "addStudent" =>
       LET g == ret'.self
           s == ret'.student
           roster == groupObjs[g].students
       IN IF s \in Range(roster)
          THEN /\ ret'.threw = UniversityError("Student is already in the group")
               /\ groupObjs' = groupObjs
          ELSE /\ ret'.threw = NoError
               /\ groupObjs' = [groupObjs EXCEPT ![g].students = roster \o <<s>>]]_vars

\* the same student was added twice: the second call was refused and the
\* roster has length 1
C3_Witness ==
  /\ ret.op = "addStudent"
  /\ ret.threw = UniversityError("Student is already in the group")
  /\ groupObjs[ret.self].students = <<ret.student>>

\* C4: enrollCourse on a student whose status is not active throws "Cannot
\* enroll: Student is not in active status" and leaves enrolledCourses and
\* totalCredits as they were.
C4_EnrollRefused ==
  [][(ret'.op = "enrollCourse"
        /\ persons[ret'.self].status # AcademicStatus.active) =>
       /\ ret'.threw =
            UniversityError("Cannot enroll: Student is not in active status")
       /\ persons'[ret'.self].enrolledCourses = persons[ret'.self].enrolledCourses
       /\ persons'[ret'.self].academicPerformance.totalCredits =
            persons[ret'.self].academicPerformance.totalCredits]_vars

\* an enrollment was refused for a student on academic leave who had enrolled
\* before
C4_Witness ==
  /\ ret.op = "enrollCourse"
  /\ ret.threw.name = "UniversityError"
  /\ persons[ret.self].status = AcademicStatus.academicLeave
  /\ persons[ret.self].enrolledCourses # <<>>

\* C5: removeStudentById(id) with no roster member of that id throws "Student
\* not found in group" and leaves every roster as it was; otherwise it removes
\* the one entry of that id and keeps the others in their order.
C5_RemoveStudentById ==
  [][ret'.op = "removeStudentById" =>
       LET g == ret'.self
           roster == groupObjs[g].students
           at == {k \in 1..Len(roster) : persons[roster[k]].id = ret'.id}
       IN IF at = {}
          THEN /\ ret'.threw = UniversityError("Student not found in group")
               /\ groupObjs' = groupObjs
          ELSE /\ ret'.threw = NoError
               /\ \E k \in at :
                    groupObjs' = [groupObjs EXCEPT ![g].students = Without(roster, k)]
               /\ Len(groupObjs'[g].students) = Len(roster) - 1]_vars

\* a student was removed and two others remain
C5_Witness ==
  /\ ret.op = "removeStudentById"
  /\ ret.threw = NoError
  /\ Len(groupObjs[ret.self].students) = 2
  /\ \A k \in 1..2 : persons[groupObjs[ret.self].students[k]].id # ret.id

\* C6: getAllPeopleByRole("student") and ("teacher") return the added people
\* of that role in the order they were added; any other role value throws an
\* "Unhandled role" error; the people list is left unchanged.
C6_PeopleByRole ==
  [][ret'.op = "getAllPeopleByRole" =>
       LET role == ret'.role
           HasRole(p) == persons[p].role = role
       IN /\ university' = university
          /\ persons' = persons
          /\ IF role \in {"student", "teacher"}
             THEN /\ ret'.threw = NoError
                  /\ ret'.value = SelectSeq(university.people, HasRole)
             ELSE /\ ret'.threw.name = "Error"
                  /\ ret'.threw.message = "Unhandled role: " \o role]_vars

\* the teachers of a mixed population were returned: two of three people
C6_Witness ==
  /\ ret.op = "getAllPeopleByRole"
  /\ ret.role = "teacher"
  /\ Len(ret.value) = 2
  /\ ret.value[1] # ret.value[2]
  /\ Len(university.people) = 3

\* C7: getAverageGroupScore returns 0 for every non-empty roster, whatever the
\* gpa values, and 0 divided by 0 for the empty roster; it throws nothing and
\* changes neither the rosters nor the students.
C7_AverageGroupScore ==
  [][ret'.op = "getAverageGroupScore" =>
       /\ ret'.threw = NoError
       /\ ret'.value = IF groupObjs[ret'.self].students # <<>>
                       THEN [num |-> 0, den |-> 1]
                       ELSE [num |-> 0, den |-> 0]
       /\ groupObjs' = groupObjs
       /\ persons' = persons]_vars

\* the average of a roster with gpas 3 and 4 was returned as 0
C7_Witness ==
  /\ ret.op = "getAverageGroupScore"
  /\ ret.value = [num |-> 0, den |-> 1]
  /\ LET roster == groupObjs[ret.self].students
     IN /\ Len(roster) = 2
        /\ persons[roster[1]].academicPerformance.gpa = 3
        /\ persons[roster[2]].academicPerformance.gpa = 4

\* C8: findGroupByCourse(course) returns the earliest-added group whose course
\* is that course object, undefined exactly when no added group has it, and
\* leaves the groups list unchanged.
C8_FindGroupByCourse ==
  [][ret'.op = "findGroupByCourse" =>
       LET groups == university.groups
           at == {k \in 1..Len(groups) : groupObjs[groups[k]].course = ret'.course}
       IN /\ university' = university
          /\ groupObjs' = groupObjs
          /\ IF at = {}
             THEN ret'.value = <<>>
             ELSE \E k \in at :
                    /\ \A j \in at : k <= j
                    /\ ret'.value = <<groups[k]>>]_vars

\* the group found was added after a group on another course object of the
\* same name and before another group on the course asked for
C8_Witness ==
  /\ ret.op = "findGroupByCourse"
  /\ Len(university.groups) = 3
  /\ LET groups == university.groups
     IN /\ groupObjs[groups[1]].course # ret.course
        /\ courseObjs[groupObjs[groups[1]].course].name = courseObjs[ret.course].name
        /\ ret.value = <<groups[2]>>
        /\ groups[3] # groups[2]
        /\ groupObjs[groups[3]].course = ret.course

\* C9: every student's totalCredits is the sum of the credits of the entries
\* of enrolledCourses, counted with multiplicity.
C9_TotalCredits ==
  \A s \in StudentRefs :
    persons[s].academicPerformance.totalCredits =
      SumCredits(persons[s].enrolledCourses)

\* the 5-credit course was enrolled twice: two entries, 10 credits
C9_Witness ==
  \E s \in StudentRefs :
    /\ persons[s].enrolledCourses = <<1, 1>>
    /\ courseObjs[1].credits = 5
    /\ persons[s].academicPerformance.totalCredits = 10

\* C10: a Student is constructed active; updateAcademicStatus never throws,
\* sets the status to the one given from any status and changes nothing else;
\* enrollCourse succeeds exactly when the status is active.
C10_StatusTransitions ==
  [][/\ ret'.op = "new Student" =>
          persons'[Len(persons')].status = AcademicStatus.active
     /\ ret'.op = "updateAcademicStatus" =>
          /\ ret'.threw = NoError
          /\ persons' = [persons EXCEPT ![ret'.self].status = ret'.newStatus]
          /\ UNCHANGED <<nextId, courseObjs, groupObjs, university>>
     /\ ret'.op = "enrollCourse" =>
          (ret'.threw = NoError <=>
             persons[ret'.self].status = AcademicStatus.active)]_vars

\* a student who enrolled twice while active has been moved to graduated by
\* updateAcademicStatus, both enrollments and their credits kept
C10_Witness ==
  /\ ret.op = "updateAcademicStatus"
  /\ ret.newStatus = AcademicStatus.graduated
  /\ persons[ret.self].status = AcademicStatus.graduated
  /\ persons[ret.self].enrolledCourses = <<1, 2>>
  /\ persons[ret.self].academicPerformance.totalCredits = 8

====
